---- MODULE Spec2Model ----
(***************************************************************************)
(* Byte-level model of the dual-header metadata patcher of                 *)
(* dualmetafix_mmap.py (DualMobiMetaFix and the helpers it calls) and of   *)
(* the callers that persist its result.                                    *)
(*                                                                         *)
(* A byte string is a sequence of integers 0..255.  Python offsets are     *)
(* 0-based; the operators below take the 0-based offsets of the source and *)
(* translate to the 1-based indices of TLA+ sequences internally.          *)
(*                                                                         *)
(* A function of the source that may raise is modelled as an operator      *)
(* returning [e |-> <error text>, v |-> <value>]; e = "" means it returned *)
(* normally.                                                               *)
(***************************************************************************)
EXTENDS Integers, Sequences, FiniteSets, TLC

\* ------------------------------------------------------------------------
\* Bounds of the model
\* ------------------------------------------------------------------------

\* longest list of records a generated header holds besides the KF8 reference
MaxRecs == 2

\* ------------------------------------------------------------------------
\* Constants of the source
\* ------------------------------------------------------------------------

number_of_pdb_records == 76
first_pdb_record == 78
mobi_header_base == 16
mobi_header_length == 20
mobi_version == 36
title_offset == 84

\* the sentinel 0xffffffff of the KF8 reference record, as the four bytes that
\* unpack to it (the model checker's integers end at 2^31 - 1)
NoKF8 == <<255, 255, 255, 255>>

EXTH == <<69, 88, 84, 72>>
EBOK == <<69, 66, 79, 75>>

\* error texts; StructError stands for struct.error raised by
\* struct.unpack_from / struct.pack
StructError == "struct.error"
RangeError == "requested section number out of range"
LengthError == "section length change in replacesection"
TagError == "EXTH tag not found where expected"
PadError == "add_exth: trimmed non-null bytes at end of section"
SizeError == "del_exth: incorrect section size change"

Ok(x) == [e |-> "", v |-> x]
Fail(msg) == [e |-> msg, v |-> <<>>]

\* ------------------------------------------------------------------------
\* Python byte-string primitives
\* ------------------------------------------------------------------------

Min(a, b) == IF a < b THEN a ELSE b

\* data[a:b] for a, b >= 0: both ends are clamped to the length
Slice(data, a, b) == SubSeq(data, Min(a, Len(data)) + 1, Min(b, Len(data)))

\* data[a:] for a >= 0
From(data, a) == Slice(data, a, Len(data))

\* data[-n:] for n > 0: the last n bytes, the whole string when it is shorter
Last(data, n) == IF n >= Len(data) THEN data ELSE SubSeq(data, Len(data) - n + 1, Len(data))

\* b'\0' * n
Zeros(n) == [i \in 1..n |-> 0]

\* struct.unpack_from succeeds iff sz bytes are available at ofs
CanUnpack(data, ofs, sz) == ofs >= 0 /\ ofs + sz <= Len(data)

\* struct.pack(b'>L', n) succeeds iff n fits an unsigned 32-bit integer.  Every
\* integer of the model is below 2^31 (getint of a field whose top byte is 128
\* or more is an evaluation error, never a wrong value), so only the lower
\* limit can be crossed.
CanPack(n) == n >= 0

\* struct.pack(b'>L', n), big-endian
pack(n) == << (n \div 16777216) % 256, (n \div 65536) % 256, (n \div 256) % 256, n % 256 >>

\* struct.pack(b'>H', n), big-endian
packH(n) == << (n \div 256) % 256, n % 256 >>

\* getint(data, ofs) with the default size b'L'
getint(data, ofs) ==
    data[ofs + 1] * 16777216 + data[ofs + 2] * 65536 + data[ofs + 3] * 256 + data[ofs + 4]

\* getint(data, ofs, b'H')
getintH(data, ofs) == data[ofs + 1] * 256 + data[ofs + 2]

\* writeint(data, ofs, n) with the default size b'L'; the caller checks CanPack
writeint(data, ofs, n) == Slice(data, 0, ofs) \o pack(n) \o From(data, ofs + 4)

\* ------------------------------------------------------------------------
\* Container accessor
\* ------------------------------------------------------------------------

\* getsecaddr with the upper limit of the range check off by one
getsecaddr_offbyone(datain, secno) ==
    IF ~CanUnpack(datain, number_of_pdb_records, 2) THEN Fail(StructError)
    ELSE LET nsec == getintH(datain, number_of_pdb_records) IN
        IF (secno < 0) \/ (secno > nsec) THEN Fail(RangeError)
        ELSE IF ~CanUnpack(datain, first_pdb_record + secno * 8, 4) THEN Fail(StructError)
        ELSE LET secstart == getint(datain, first_pdb_record + secno * 8) IN
            IF secno = nsec - 1 THEN Ok(<<secstart, Len(datain)>>)
            ELSE IF ~CanUnpack(datain, first_pdb_record + (secno + 1) * 8, 4)
                 THEN Fail(StructError)
            ELSE Ok(<<secstart, getint(datain, first_pdb_record + (secno + 1) * 8)>>)

getsecaddr(datain, secno) ==
    IF ~CanUnpack(datain, number_of_pdb_records, 2) THEN Fail(StructError)
    ELSE LET nsec == getintH(datain, number_of_pdb_records) IN
        IF (secno < 0) \/ (secno >= nsec) THEN Fail(RangeError)
        ELSE IF ~CanUnpack(datain, first_pdb_record + secno * 8, 4) THEN Fail(StructError)
        ELSE LET secstart == getint(datain, first_pdb_record + secno * 8) IN
            IF secno = nsec - 1 THEN Ok(<<secstart, Len(datain)>>)
            ELSE IF ~CanUnpack(datain, first_pdb_record + (secno + 1) * 8, 4)
                 THEN Fail(StructError)
            ELSE Ok(<<secstart, getint(datain, first_pdb_record + (secno + 1) * 8)>>)

\* readsection stopping one byte short of the section's end
readsection_short(datain, secno) ==
    LET a == getsecaddr(datain, secno) IN
        IF a.e # "" THEN a ELSE Ok(Slice(datain, a.v[1], a.v[2] - 1))

readsection(datain, secno) ==
    LET a == getsecaddr(datain, secno) IN
        IF a.e # "" THEN a ELSE Ok(Slice(datain, a.v[1], a.v[2]))

\* replacesection without the length check
replacesection_nocheck(datain, secno, secdata) ==
    LET a == getsecaddr(datain, secno) IN
        IF a.e # "" THEN a
        ELSE Ok(Slice(datain, 0, a.v[1]) \o secdata \o From(datain, a.v[2]))

\* replacesection keeping the old section after the new one
replacesection_tail(datain, secno, secdata) ==
    LET a == getsecaddr(datain, secno) IN
        IF a.e # "" THEN a
        ELSE LET secstart == a.v[1]
                 secend == a.v[2]
                 seclen == secend - secstart
             IN IF Len(secdata) # seclen THEN Fail(LengthError)
                ELSE Ok(Slice(datain, 0, secstart) \o secdata \o From(datain, secstart))

\* replacesection splicing one byte too early
replacesection_shift(datain, secno, secdata) ==
    LET a == getsecaddr(datain, secno) IN
        IF a.e # "" THEN a
        ELSE LET secstart == a.v[1]
                 secend == a.v[2]
                 seclen == secend - secstart
             IN IF Len(secdata) # seclen THEN Fail(LengthError)
                ELSE Ok(Slice(datain, 0, secstart - 1) \o secdata \o From(datain, secend - 1))

replacesection(datain, secno, secdata) ==
    LET a == getsecaddr(datain, secno) IN
        IF a.e # "" THEN a
        ELSE LET secstart == a.v[1]
                 secend == a.v[2]
                 seclen == secend - secstart
             IN IF Len(secdata) # seclen THEN Fail(LengthError)
                ELSE Ok(Slice(datain, 0, secstart) \o secdata \o From(datain, secend))

\* ------------------------------------------------------------------------
\* EXTH codec
\* ------------------------------------------------------------------------

\* get_exth_params looking for the tag at the header-length field's value,
\* without the 16 bytes in front of the MOBI header
get_exth_params_nobase(rec0) ==
    IF ~CanUnpack(rec0, mobi_header_length, 4) THEN Fail(StructError)
    ELSE LET ebase == getint(rec0, mobi_header_length) IN
        IF Slice(rec0, ebase, ebase + 4) # EXTH THEN Fail(TagError)
        ELSE IF ~CanUnpack(rec0, ebase + 4, 4) \/ ~CanUnpack(rec0, ebase + 8, 4)
             THEN Fail(StructError)
        ELSE Ok([ebase |-> ebase, elen |-> getint(rec0, ebase + 4),
                 enum |-> getint(rec0, ebase + 8), rlen |-> Len(rec0)])

get_exth_params(rec0) ==
    IF ~CanUnpack(rec0, mobi_header_length, 4) THEN Fail(StructError)
    ELSE LET ebase == mobi_header_base + getint(rec0, mobi_header_length) IN
        IF Slice(rec0, ebase, ebase + 4) # EXTH THEN Fail(TagError)
        ELSE IF ~CanUnpack(rec0, ebase + 4, 4) \/ ~CanUnpack(rec0, ebase + 8, 4)
             THEN Fail(StructError)
        ELSE Ok([ebase |-> ebase, elen |-> getint(rec0, ebase + 4),
                 enum |-> getint(rec0, ebase + 8), rlen |-> Len(rec0)])

\* add_exth putting the new record after the declared end of the record list
\* instead of in front of it
add_exth_append(rec0, exth_num, exth_bytes) ==
    LET p == get_exth_params(rec0) IN
    IF p.e # "" THEN p
    ELSE LET ebase == p.v.ebase
             elen == p.v.elen
             enum == p.v.enum
             rlen == p.v.rlen
             newrecsize == 8 + Len(exth_bytes)
         IN IF ~CanPack(elen + newrecsize) \/ ~CanPack(enum + 1) \/ ~CanPack(exth_num)
               \/ ~CanPack(newrecsize)
            THEN Fail(StructError)
            ELSE LET spliced == Slice(rec0, 0, ebase + 4) \o pack(elen + newrecsize)
                                \o pack(enum + 1) \o Slice(rec0, ebase + 12, ebase + elen)
                                \o pack(exth_num) \o pack(newrecsize)
                                \o exth_bytes \o From(rec0, ebase + elen)
                 IN IF ~CanUnpack(spliced, title_offset, 4) THEN Fail(StructError)
                    ELSE IF ~CanPack(getint(spliced, title_offset) + newrecsize)
                         THEN Fail(StructError)
                    ELSE LET newrec0 == writeint(spliced, title_offset,
                                                 getint(spliced, title_offset) + newrecsize)
                             sectail == Last(newrec0, newrecsize)
                         IN IF sectail # Zeros(newrecsize) THEN Fail(PadError)
                            ELSE Ok(Slice(newrec0, 0, rlen))

\* add_exth leaving the Title Offset field as it was
add_exth_notitle(rec0, exth_num, exth_bytes) ==
    LET p == get_exth_params(rec0) IN
    IF p.e # "" THEN p
    ELSE LET ebase == p.v.ebase
             elen == p.v.elen
             enum == p.v.enum
             rlen == p.v.rlen
             newrecsize == 8 + Len(exth_bytes)
         IN IF ~CanPack(elen + newrecsize) \/ ~CanPack(enum + 1) \/ ~CanPack(exth_num)
               \/ ~CanPack(newrecsize)
            THEN Fail(StructError)
            ELSE LET newrec0 == Slice(rec0, 0, ebase + 4) \o pack(elen + newrecsize)
                                \o pack(enum + 1) \o pack(exth_num) \o pack(newrecsize)
                                \o exth_bytes \o From(rec0, ebase + 12)
                     sectail == Last(newrec0, newrecsize)
                 IN IF sectail # Zeros(newrecsize) THEN Fail(PadError)
                    ELSE Ok(Slice(newrec0, 0, rlen))

\* add_exth cutting the tail off without looking at it
add_exth_nopadcheck(rec0, exth_num, exth_bytes) ==
    LET p == get_exth_params(rec0) IN
    IF p.e # "" THEN p
    ELSE LET ebase == p.v.ebase
             elen == p.v.elen
             enum == p.v.enum
             rlen == p.v.rlen
             newrecsize == 8 + Len(exth_bytes)
         IN IF ~CanPack(elen + newrecsize) \/ ~CanPack(enum + 1) \/ ~CanPack(exth_num)
               \/ ~CanPack(newrecsize)
            THEN Fail(StructError)
            ELSE LET spliced == Slice(rec0, 0, ebase + 4) \o pack(elen + newrecsize)
                                \o pack(enum + 1) \o pack(exth_num) \o pack(newrecsize)
                                \o exth_bytes \o From(rec0, ebase + 12)
                 IN IF ~CanUnpack(spliced, title_offset, 4) THEN Fail(StructError)
                    ELSE IF ~CanPack(getint(spliced, title_offset) + newrecsize)
                         THEN Fail(StructError)
                    ELSE LET newrec0 == writeint(spliced, title_offset,
                                                 getint(spliced, title_offset) + newrecsize)
                         IN Ok(Slice(newrec0, 0, rlen))

add_exth(rec0, exth_num, exth_bytes) ==
    LET p == get_exth_params(rec0) IN
    IF p.e # "" THEN p
    ELSE LET ebase == p.v.ebase
             elen == p.v.elen
             enum == p.v.enum
             rlen == p.v.rlen
             newrecsize == 8 + Len(exth_bytes)
         IN IF ~CanPack(elen + newrecsize) \/ ~CanPack(enum + 1) \/ ~CanPack(exth_num)
               \/ ~CanPack(newrecsize)
            THEN Fail(StructError)
            ELSE LET spliced == Slice(rec0, 0, ebase + 4) \o pack(elen + newrecsize)
                                \o pack(enum + 1) \o pack(exth_num) \o pack(newrecsize)
                                \o exth_bytes \o From(rec0, ebase + 12)
                 IN IF ~CanUnpack(spliced, title_offset, 4) THEN Fail(StructError)
                    ELSE IF ~CanPack(getint(spliced, title_offset) + newrecsize)
                         THEN Fail(StructError)
                    ELSE LET newrec0 == writeint(spliced, title_offset,
                                                 getint(spliced, title_offset) + newrecsize)
                             sectail == Last(newrec0, newrecsize)
                         IN IF sectail # Zeros(newrecsize) THEN Fail(PadError)
                            ELSE Ok(Slice(newrec0, 0, rlen))

\* the while loop of read_exth: enum records are still to be walked, the next
\* one at ebase; exth_values are the payloads collected so far
RECURSIVE read_exth_loop(_, _, _, _, _)
read_exth_loop(rec0, exth_num, ebase, enum, exth_values) ==
    IF ~(enum > 0) THEN Ok(exth_values)
    ELSE IF ~CanUnpack(rec0, ebase, 4) THEN Fail(StructError)
    ELSE LET exth_id == getint(rec0, ebase) IN
        IF ~CanUnpack(rec0, ebase + 4, 4) THEN Fail(StructError)
        ELSE LET size == getint(rec0, ebase + 4)
                 vals == IF exth_id = exth_num
                         THEN Append(exth_values, Slice(rec0, ebase + 8, ebase + size))
                         ELSE exth_values
             IN read_exth_loop(rec0, exth_num, ebase + size, enum - 1, vals)

\* read_exth returning the first match only
read_exth_first(rec0, exth_num) ==
    LET p == get_exth_params(rec0) IN
    IF p.e # "" THEN p
    ELSE LET r == read_exth_loop(rec0, exth_num, p.v.ebase + 12, p.v.enum, <<>>) IN
         IF r.e # "" \/ r.v = <<>> THEN r ELSE Ok(<< r.v[1] >>)

read_exth(rec0, exth_num) ==
    LET p == get_exth_params(rec0) IN
    IF p.e # "" THEN p
    ELSE read_exth_loop(rec0, exth_num, p.v.ebase + 12, p.v.enum, <<>>)

\* the body of del_exth leaving the Title Offset field as it was
del_exth_found_notitle(rec0, p, ebase_idx, exth_size) ==
    LET r2 == Slice(rec0, 0, ebase_idx) \o From(rec0, ebase_idx + exth_size)
    IN IF ~CanPack(p.elen - exth_size) \/ ~CanPack(p.enum - 1) THEN Fail(StructError)
       ELSE LET r3 == Slice(r2, 0, p.ebase + 4) \o pack(p.elen - exth_size)
                      \o pack(p.enum - 1) \o From(r2, p.ebase + 12)
                newrec0 == r3 \o Zeros(exth_size)
            IN IF p.rlen # Len(newrec0) THEN Fail(SizeError) ELSE Ok(newrec0)

\* the body of del_exth leaving the record count as it was
del_exth_found_keepcount(rec0, p, ebase_idx, exth_size) ==
    IF ~CanUnpack(rec0, title_offset, 4) THEN Fail(StructError)
    ELSE IF ~CanPack(getint(rec0, title_offset) - exth_size) THEN Fail(StructError)
    ELSE LET r1 == writeint(rec0, title_offset, getint(rec0, title_offset) - exth_size)
             r2 == Slice(r1, 0, ebase_idx) \o From(r1, ebase_idx + exth_size)
         IN IF ~CanPack(p.elen - exth_size) \/ ~CanPack(p.enum - 1) THEN Fail(StructError)
            ELSE LET r3 == Slice(r2, 0, p.ebase + 4) \o pack(p.elen - exth_size)
                           \o pack(p.enum) \o From(r2, p.ebase + 12)
                     newrec0 == r3 \o Zeros(exth_size)
                 IN IF p.rlen # Len(newrec0) THEN Fail(SizeError) ELSE Ok(newrec0)

\* the body of del_exth padding with one zero byte less than it removed
del_exth_found_shortpad(rec0, p, ebase_idx, exth_size) ==
    IF ~CanUnpack(rec0, title_offset, 4) THEN Fail(StructError)
    ELSE IF ~CanPack(getint(rec0, title_offset) - exth_size) THEN Fail(StructError)
    ELSE LET r1 == writeint(rec0, title_offset, getint(rec0, title_offset) - exth_size)
             r2 == Slice(r1, 0, ebase_idx) \o From(r1, ebase_idx + exth_size)
         IN IF ~CanPack(p.elen - exth_size) \/ ~CanPack(p.enum - 1) THEN Fail(StructError)
            ELSE LET r3 == Slice(r2, 0, p.ebase + 4) \o pack(p.elen - exth_size)
                           \o pack(p.enum - 1) \o From(r2, p.ebase + 12)
                     newrec0 == r3 \o Zeros(exth_size - 1)
                 IN IF p.rlen # Len(newrec0) THEN Fail(SizeError) ELSE Ok(newrec0)

\* the body of del_exth once the record at ebase_idx, of declared length
\* exth_size, was found to match
del_exth_found(rec0, p, ebase_idx, exth_size) ==
    IF ~CanUnpack(rec0, title_offset, 4) THEN Fail(StructError)
    ELSE IF ~CanPack(getint(rec0, title_offset) - exth_size) THEN Fail(StructError)
    ELSE LET r1 == writeint(rec0, title_offset, getint(rec0, title_offset) - exth_size)
             r2 == Slice(r1, 0, ebase_idx) \o From(r1, ebase_idx + exth_size)
         IN IF ~CanPack(p.elen - exth_size) \/ ~CanPack(p.enum - 1) THEN Fail(StructError)
            ELSE LET r3 == Slice(r2, 0, p.ebase + 4) \o pack(p.elen - exth_size)
                           \o pack(p.enum - 1) \o From(r2, p.ebase + 12)
                     newrec0 == r3 \o Zeros(exth_size)
                 IN IF p.rlen # Len(newrec0) THEN Fail(SizeError) ELSE Ok(newrec0)

\* the while loop of del_exth: enum_idx records were walked, the next one is at
\* ebase_idx
RECURSIVE del_exth_loop(_, _, _, _, _)
del_exth_loop(rec0, exth_num, p, ebase_idx, enum_idx) ==
    IF ~(enum_idx < p.enum) THEN Ok(rec0)
    ELSE IF ~CanUnpack(rec0, ebase_idx, 4) \/ ~CanUnpack(rec0, ebase_idx + 4, 4)
         THEN Fail(StructError)
    ELSE LET exth_id == getint(rec0, ebase_idx)
             exth_size == getint(rec0, ebase_idx + 4)
         IN IF exth_id = exth_num THEN del_exth_found(rec0, p, ebase_idx, exth_size)
            ELSE del_exth_loop(rec0, exth_num, p, ebase_idx + exth_size, enum_idx + 1)

\* del_exth whose comparison never matches: every header is returned as it is
del_exth_none(rec0, exth_num) ==
    LET p == get_exth_params(rec0) IN
    IF p.e # "" THEN p ELSE Ok(rec0)

\* del_exth removing the first record of the list whatever its type
del_exth_anytype(rec0, exth_num) ==
    LET p == get_exth_params(rec0) IN
    IF p.e # "" THEN p
    ELSE IF p.v.enum = 0 THEN Ok(rec0)
    ELSE del_exth_found(rec0, p.v, p.v.ebase + 12, getint(rec0, p.v.ebase + 16))

\* del_exth raising when no record matched
del_exth_strict(rec0, exth_num) ==
    LET p == get_exth_params(rec0) IN
    IF p.e # "" THEN p
    ELSE LET r == del_exth_loop(rec0, exth_num, p.v, p.v.ebase + 12, 0) IN
         IF r = Ok(rec0) THEN Fail(SizeError) ELSE r

del_exth(rec0, exth_num) ==
    LET p == get_exth_params(rec0) IN
    IF p.e # "" THEN p
    ELSE del_exth_loop(rec0, exth_num, p.v, p.v.ebase + 12, 0)

\* ------------------------------------------------------------------------
\* Generated inputs: containers of three sections
\*   section 0: the primary header
\*   section 1: an opaque section that is no header
\*   section 2: a second header
\* ------------------------------------------------------------------------

\* one EXTH record: type id, inclusive length, payload
EncodeRec(r) == pack(r.t) \o pack(8 + Len(r.d)) \o r.d

RECURSIVE EncodeRecs(_)
EncodeRecs(recs) == IF recs = <<>> THEN <<>> ELSE EncodeRec(Head(recs)) \o EncodeRecs(Tail(recs))

\* the records generated headers are made of: stale values of the managed
\* types 113, 504, 501 and a record of an unmanaged type
RecAlphabet ==
    { [t |-> 113, d |-> <<90>>], [t |-> 504, d |-> <<90, 89>>],
      [t |-> 501, d |-> <<80, 68, 79, 67>>], [t |-> 100, d |-> <<97>>] }

RECURSIVE SeqsUpTo(_, _)
SeqsUpTo(S, n) ==
    IF n = 0 THEN {<<>>}
    ELSE LET shorter == SeqsUpTo(S, n - 1) IN
         shorter \cup {Append(q, x) : q \in {r \in shorter : Len(r) = n - 1}, x \in S}

RecLists == SeqsUpTo(RecAlphabet, MaxRecs)

Reverse(q) == [i \in 1..Len(q) |-> q[Len(q) + 1 - i]]

\* the identifiers patched in, already encoded; the first is also the stale
\* value of the generated type-113 record
Ids == { <<90>>, <<66, 48>> }

\* format versions of the primary header
Versions == {6, 8}

\* the KF8 references of the primary header: the payloads of its type-121
\* records in walk order, <<>> for no such record
KF8Choices ==
    { <<>>, << pack(0) >>, << pack(1) >>, << pack(2) >>, << pack(3) >>, << NoKF8 >>,
      << pack(2), pack(1) >>, << NoKF8, pack(2) >> }

\* what is wrong with the container, if anything: the EXTH tag of a header
\* overwritten, or too little zero padding at the end of a header
Defects == {"none", "p_notag", "p_short", "s_notag", "s_short"}

\* zero padding at the end of a header: ample, and too short for three records
AmplePad == 3 * (8 + 4)
ShortPad == 8 + 4

\* a header section: MOBI prefix up to the EXTH block, the EXTH block, the
\* title, the zero padding
Header(ver, recs, tagok, pad) ==
    LET hlen == title_offset + 4 - mobi_header_base
        body == EncodeRecs(recs)
        elen == 12 + Len(body)
        prefix == [i \in 1..(mobi_header_base + hlen) |->
                     CASE i \in 17..20 -> <<77, 79, 66, 73>>[i - 16]
                       [] i \in 21..24 -> pack(hlen)[i - 20]
                       [] i \in 37..40 -> pack(ver)[i - 36]
                       [] i \in 85..88 -> pack(mobi_header_base + hlen + elen)[i - 84]
                       [] OTHER -> 0]
    IN prefix \o (IF tagok THEN EXTH ELSE <<88, 88, 88, 88>>) \o pack(elen)
       \o pack(Len(recs)) \o body \o <<84, 116>> \o Zeros(pad)

\* the container holding the sections secs
Container(secs) ==
    LET n == Len(secs)
        RECURSIVE start(_)
        start(i) == IF i = 1 THEN first_pdb_record + 8 * n
                    ELSE start(i - 1) + Len(secs[i - 1])
        RECURSIVE dir(_)
        dir(i) == IF i > n THEN <<>> ELSE pack(start(i)) \o pack(2 * (i - 1)) \o dir(i + 1)
        RECURSIVE cat(_)
        cat(i) == IF i > n THEN <<>> ELSE secs[i] \o cat(i + 1)
        pdb == [i \in 1..number_of_pdb_records |->
                  IF i \in 61..68 THEN <<66, 79, 79, 75, 77, 79, 66, 73>>[i - 60] ELSE 0]
    IN pdb \o packH(n) \o dir(1) \o cat(1)

GenContainer(ver, kf8, recs, defect) ==
    LET ref == [i \in 1..Len(kf8) |-> [t |-> 121, d |-> kf8[i]]]
        primary == Header(ver, recs \o ref, defect # "p_notag",
                          IF defect = "p_short" THEN ShortPad ELSE AmplePad)
        secondary == Header(8, Reverse(recs), defect # "s_notag",
                            IF defect = "s_short" THEN ShortPad ELSE AmplePad)
    IN Container(<< primary, <<1, 2, 3, 4, 5>>, secondary >>)

Containers ==
    { GenContainer(ver, kf8, recs, defect) :
        ver \in Versions, kf8 \in KF8Choices, recs \in RecLists, defect \in Defects }

\* ------------------------------------------------------------------------
\* The patcher DualMobiMetaFix and its callers
\* ------------------------------------------------------------------------

VARIABLES
    file,           \* the stored book file the caller hands to the patcher
    asin,           \* the identifier, encoded
    pass,           \* how many times the caller has run the patcher on the file
    pc,             \* position in DualMobiMetaFix.__init__ and in its caller
    datain,         \* self.datain
    datain_rec0,    \* self.datain_rec0
    combo,          \* self.combo
    datain_kf8,     \* the local datain_kf8 once it names a section, -1 before
    err,            \* the text of the exception raised, "" when none
    buf,            \* a byte buffer a function is applied to on its own
    op,             \* the function last applied to buf, "" before the first
    arg,            \* the number it was applied with: a section number or type id
    arg2,           \* the bytes it was applied with: new section bytes or a payload
    res,            \* what it returned or raised
    trail           \* the earlier calls of a sequence of calls, oldest first

vars == << file, asin, pass, pc, datain, datain_rec0, combo, datain_kf8, err,
           buf, op, arg, arg2, res, trail >>

\* the variables of the patcher run, and those of a function applied on its own
patchVars == << file, asin, pass, pc, datain, datain_rec0, combo, datain_kf8, err >>
callVars == << buf, op, arg, arg2, res, trail >>

\* the caller patches the file once and patches the result once more
Passes == 1..2

\* the next statement of a sequence: it runs on the value of r unless r is an
\* exception, which then leaves the sequence
ThenDel(r, exth_num) == IF r.e # "" THEN r ELSE del_exth(r.v, exth_num)
ThenAdd(r, exth_num, exth_bytes) == IF r.e # "" THEN r ELSE add_exth(r.v, exth_num, exth_bytes)
ThenReplace(data, secno, r) == IF r.e # "" THEN r ELSE replacesection(data, secno, r.v)

\* the deletions leaving the type-501 record where it is
DeleteManaged_no501(rec0) ==
    ThenDel(del_exth(rec0, 113), 504)

\* the three deletions of the managed types
DeleteManaged(rec0) ==
    ThenDel(ThenDel(del_exth(rec0, 501), 113), 504)

\* the primary header's patch: three deletions, then 113, 504, 501 are added
PatchPrimaryHeader(rec0, id) ==
    ThenAdd(ThenAdd(ThenAdd(DeleteManaged(rec0), 113, id), 504, id), 501, EBOK)

\* the secondary header's patch adding type 113 twice and type 504 never
PatchSecondaryHeader_twice113(rec0, id) ==
    ThenAdd(ThenAdd(ThenAdd(DeleteManaged(rec0), 113, id), 113, id), 501, EBOK)

\* the secondary header's patch without the three deletions
PatchSecondaryHeader_nodel(rec0, id) ==
    ThenAdd(ThenAdd(ThenAdd(Ok(rec0), 504, id), 113, id), 501, EBOK)

\* the secondary header's patch: three deletions, then 504, 113, 501 are added
PatchSecondaryHeader(rec0, id) ==
    ThenAdd(ThenAdd(ThenAdd(DeleteManaged(rec0), 504, id), 113, id), 501, EBOK)

Init ==
    /\ file \in Containers
    /\ asin \in Ids
    /\ pass = 1
    /\ pc = "Start"
    /\ datain = <<>>
    /\ datain_rec0 = <<>>
    /\ combo = FALSE
    /\ datain_kf8 = -1
    /\ err = ""
    /\ buf = <<>>
    /\ op = ""
    /\ arg = 0
    /\ arg2 = <<>>
    /\ res = Ok(<<>>)
    /\ trail = <<>>

\* an exception that starts the run again instead of leaving __init__
Raise_retry(msg) ==
    /\ pc' = "Start"
    /\ err' = msg

\* the exception msg leaves __init__: no object is constructed
Raise(msg) ==
    /\ pc' = "Error"
    /\ err' = msg

\* the file is read and section 0 is taken as the primary header
ReadPrimary ==
    /\ pc = "Start"
    /\ datain' = file
    /\ LET r == readsection(file, 0) IN
         IF r.e # ""
         THEN Raise(r.e) /\ UNCHANGED datain_rec0
         ELSE pc' = "Primary" /\ datain_rec0' = r.v /\ UNCHANGED err
    /\ UNCHANGED << file, asin, pass, combo, datain_kf8 >>
    /\ UNCHANGED callVars

\* the primary header is patched and written back into self.datain
PatchPrimary ==
    /\ pc = "Primary"
    /\ LET rec0 == PatchPrimaryHeader(datain_rec0, asin)
           out == ThenReplace(datain, 0, rec0)
       IN IF out.e # ""
          THEN Raise(out.e) /\ UNCHANGED datain
          ELSE pc' = "PrimaryPatched" /\ datain' = out.v /\ UNCHANGED err
    /\ UNCHANGED << file, asin, pass, datain_rec0, combo, datain_kf8 >>
    /\ UNCHANGED callVars

\* the combo decision without the test of the format version
ComboDecision_anyver(rec0) ==
    LET exth121 == read_exth(rec0, 121) IN
      IF exth121.e # "" THEN [e |-> exth121.e, combo |-> TRUE, kf8 |-> -1]
      ELSE IF Len(exth121.v) = 0 THEN [e |-> "", combo |-> FALSE, kf8 |-> -1]
      ELSE IF ~CanUnpack(exth121.v[1], 0, 4)
      THEN [e |-> StructError, combo |-> TRUE, kf8 |-> -1]
      ELSE IF Slice(exth121.v[1], 0, 4) = NoKF8
      THEN [e |-> "", combo |-> FALSE, kf8 |-> -1]
      ELSE [e |-> "", combo |-> TRUE, kf8 |-> getint(exth121.v[1], 0)]

\* the combo decision taking the last type-121 record instead of the first
ComboDecision_last121(rec0) ==
    IF ~CanUnpack(rec0, mobi_version, 4)
    THEN [e |-> StructError, combo |-> FALSE, kf8 |-> -1]
    ELSE LET ver == getint(rec0, mobi_version) IN
      IF ~(ver # 8) THEN [e |-> "", combo |-> FALSE, kf8 |-> -1]
      ELSE LET exth121 == read_exth(rec0, 121) IN
        IF exth121.e # "" THEN [e |-> exth121.e, combo |-> TRUE, kf8 |-> -1]
        ELSE IF Len(exth121.v) = 0 THEN [e |-> "", combo |-> FALSE, kf8 |-> -1]
        ELSE LET last == exth121.v[Len(exth121.v)] IN
          IF ~CanUnpack(last, 0, 4)
          THEN [e |-> StructError, combo |-> TRUE, kf8 |-> -1]
          ELSE IF Slice(last, 0, 4) = NoKF8
          THEN [e |-> "", combo |-> FALSE, kf8 |-> -1]
          ELSE [e |-> "", combo |-> TRUE, kf8 |-> getint(last, 0)]

\* the combo decision of __init__ on the primary header rec0 as it was read:
\* e is the exception raised ("" for none), combo the value self.combo then
\* has, kf8 the section number in the local datain_kf8 (-1 while it names none)
ComboDecision(rec0) ==
    IF ~CanUnpack(rec0, mobi_version, 4)
    THEN [e |-> StructError, combo |-> FALSE, kf8 |-> -1]
    ELSE LET ver == getint(rec0, mobi_version) IN
      IF ~(ver # 8) THEN [e |-> "", combo |-> FALSE, kf8 |-> -1]
      ELSE LET exth121 == read_exth(rec0, 121) IN
        IF exth121.e # "" THEN [e |-> exth121.e, combo |-> TRUE, kf8 |-> -1]
        ELSE IF Len(exth121.v) = 0 THEN [e |-> "", combo |-> FALSE, kf8 |-> -1]
        ELSE IF ~CanUnpack(exth121.v[1], 0, 4)
        THEN [e |-> StructError, combo |-> TRUE, kf8 |-> -1]
        ELSE IF Slice(exth121.v[1], 0, 4) = NoKF8
        THEN [e |-> "", combo |-> FALSE, kf8 |-> -1]
        ELSE [e |-> "", combo |-> TRUE, kf8 |-> getint(exth121.v[1], 0)]

\* the combo decision is taken: __init__ returns early, or goes on to the
\* second header
DecideCombo ==
    /\ pc = "PrimaryPatched"
    /\ LET d == ComboDecision(datain_rec0) IN
         /\ combo' = d.combo
         /\ datain_kf8' = d.kf8
         /\ IF d.e # "" THEN Raise(d.e)
            ELSE /\ pc' = IF d.combo THEN "ComboDetected" ELSE "NotCombo"
                 /\ UNCHANGED err
    /\ UNCHANGED << file, asin, pass, datain, datain_rec0 >>
    /\ UNCHANGED callVars

\* a second-header step that takes a section it cannot read for no second
\* header and goes on
PatchSecondary_lenient ==
    /\ pc = "ComboDetected"
    /\ LET kfrec0 == readsection(datain, datain_kf8)
           rec0 == IF kfrec0.e # "" THEN kfrec0 ELSE PatchSecondaryHeader(kfrec0.v, asin)
           out == ThenReplace(datain, datain_kf8, rec0)
       IN IF kfrec0.e # ""
          THEN pc' = "SecondaryPatched" /\ UNCHANGED << datain, err >>
          ELSE IF out.e # ""
          THEN Raise(out.e) /\ UNCHANGED datain
          ELSE pc' = "SecondaryPatched" /\ datain' = out.v /\ UNCHANGED err
    /\ UNCHANGED << file, asin, pass, datain_rec0, combo, datain_kf8 >>
    /\ UNCHANGED callVars

\* the referenced section is read from self.datain, patched and written back
PatchSecondary ==
    /\ pc = "ComboDetected"
    /\ LET kfrec0 == readsection(datain, datain_kf8)
           rec0 == IF kfrec0.e # "" THEN kfrec0 ELSE PatchSecondaryHeader(kfrec0.v, asin)
           out == ThenReplace(datain, datain_kf8, rec0)
       IN IF out.e # ""
          THEN Raise(out.e) /\ UNCHANGED datain
          ELSE pc' = "SecondaryPatched" /\ datain' = out.v /\ UNCHANGED err
    /\ UNCHANGED << file, asin, pass, datain_rec0, combo, datain_kf8 >>
    /\ UNCHANGED callVars

\* __init__ returns: the caller holds the constructed object
Return ==
    /\ pc \in {"NotCombo", "SecondaryPatched"}
    /\ pc' = "Done"
    /\ UNCHANGED << file, asin, pass, datain, datain_rec0, combo, datain_kf8, err >>
    /\ UNCHANGED callVars

\* getresult()
getresult == datain

\* a caller that swallows the exception and writes self.datain all the same
ConvertWrite_early ==
    /\ pc \in {"Done", "Error"}
    /\ file' = datain
    /\ pc' = "Written"
    /\ UNCHANGED << asin, pass, datain, datain_rec0, combo, datain_kf8, err >>
    /\ UNCHANGED callVars

\* convert of main.py writes the result over the file it patched
ConvertWrite ==
    /\ pc = "Done"
    /\ file' = getresult
    /\ pc' = "Written"
    /\ UNCHANGED << asin, pass, datain, datain_rec0, combo, datain_kf8, err >>
    /\ UNCHANGED callVars

\* run of plugin.py writes the result beside the file, then replaces the file
RunWrite ==
    /\ pc = "Done"
    /\ file' = getresult
    /\ pc' = "Written"
    /\ UNCHANGED << asin, pass, datain, datain_rec0, combo, datain_kf8, err >>
    /\ UNCHANGED callVars

\* main of dualmetafix_mmap.py writes the result to the output file
MainWrite ==
    /\ pc = "Done"
    /\ file' = getresult
    /\ pc' = "Written"
    /\ UNCHANGED << asin, pass, datain, datain_rec0, combo, datain_kf8, err >>
    /\ UNCHANGED callVars

\* the caller runs the patcher again, on the file it has written
Repatch ==
    /\ pc = "Written"
    /\ pass + 1 \in Passes
    /\ pass' = pass + 1
    /\ pc' = "Start"
    /\ datain' = <<>>
    /\ datain_rec0' = <<>>
    /\ combo' = FALSE
    /\ datain_kf8' = -1
    /\ UNCHANGED << file, asin, err >>
    /\ UNCHANGED callVars

Next ==
    \/ ReadPrimary
    \/ PatchPrimary
    \/ DecideCombo
    \/ PatchSecondary
    \/ Return
    \/ ConvertWrite
    \/ RunWrite
    \/ MainWrite
    \/ Repatch

Spec == Init /\ [][Next]_vars

\* the statements of __init__ that work on a header
Patch ==
    \/ PatchPrimary
    \/ DecideCombo
    \/ PatchSecondary

\* ENABLED <<Patch>>_vars: each of the three statements can run whenever the
\* run is at its position, and each moves the run to another position
PatchEnabled == pc \in {"Primary", "PrimaryPatched", "ComboDetected"}

\* Python runs the statements of __init__ one after the other and none of
\* them waits for anything, so a run that can take a step takes it: weak
\* fairness of every statement. For Patch it is written out, WF_vars(A) being
\* []<>~ENABLED <<A>>_vars \/ []<><<A>>_vars.
Fairness ==
    /\ WF_vars(ReadPrimary)
    /\ WF_vars(Return)
    /\ ([]<>~PatchEnabled \/ []<><<Patch>>_vars)

\* the runs followed to their end: one identifier, and containers of every
\* version, KF8 reference and defect whose headers hold no record or a record
\* of a managed type and one of another type
LiveRecLists == { <<>>, << [t |-> 113, d |-> <<90>>], [t |-> 100, d |-> <<97>>] >> }

LiveContainers ==
    { GenContainer(ver, kf8, recs, defect) :
        ver \in Versions, kf8 \in KF8Choices, recs \in LiveRecLists, defect \in Defects }

LiveInit ==
    /\ file \in LiveContainers
    /\ asin = <<66, 48>>
    /\ pass = 1
    /\ pc = "Start"
    /\ datain = <<>>
    /\ datain_rec0 = <<>>
    /\ combo = FALSE
    /\ datain_kf8 = -1
    /\ err = ""
    /\ buf = <<>>
    /\ op = ""
    /\ arg = 0
    /\ arg2 = <<>>
    /\ res = Ok(<<>>)
    /\ trail = <<>>

LiveSpec == LiveInit /\ [][Next]_vars /\ Fairness

\* ------------------------------------------------------------------------
\* The container accessor applied on its own
\* ------------------------------------------------------------------------

\* most sections of a container the accessor is applied to
MaxSecs == 3

\* contents of the sections of those containers
SecBodies == { <<>>, <<7>>, <<1, 2, 3, 4, 5>> }

AccessContainers == { Container(secs) : secs \in SeqsUpTo(SecBodies, MaxSecs) }

\* section numbers asked for: below, inside and above every directory
SecNos == -2..(MaxSecs + 1)

AccessInit ==
    /\ buf \in AccessContainers
    /\ op = ""
    /\ arg = 0
    /\ arg2 = <<>>
    /\ res = Ok(<<>>)
    /\ trail = <<>>
    /\ file = <<>>
    /\ asin = <<>>
    /\ pass = 1
    /\ pc = "Idle"
    /\ datain = <<>>
    /\ datain_rec0 = <<>>
    /\ combo = FALSE
    /\ datain_kf8 = -1
    /\ err = ""

\* getsecaddr(buf, secno) is called
Locate ==
    /\ op = ""
    /\ \E secno \in SecNos :
         /\ op' = "getsecaddr"
         /\ arg' = secno
         /\ res' = getsecaddr(buf, secno)
    /\ UNCHANGED << buf, arg2, trail >>
    /\ UNCHANGED patchVars

\* readsection(buf, secno) is called
ReadSec ==
    /\ op = ""
    /\ \E secno \in SecNos :
         /\ op' = "readsection"
         /\ arg' = secno
         /\ res' = readsection(buf, secno)
    /\ UNCHANGED << buf, arg2, trail >>
    /\ UNCHANGED patchVars

\* the new section bytes handed to replacesection: some as long as a section
\* of the container, some not
NewBodies == { <<>>, <<9>>, <<9, 8>>, <<9, 8, 7, 6, 5>> }

\* replacesection(buf, secno, secdata) is called
ReplaceSec ==
    /\ op = ""
    /\ \E secno \in SecNos, secdata \in NewBodies :
         /\ op' = "replacesection"
         /\ arg' = secno
         /\ arg2' = secdata
         /\ res' = replacesection(buf, secno, secdata)
    /\ UNCHANGED << buf, trail >>
    /\ UNCHANGED patchVars

AccessNext ==
    \/ Locate
    \/ ReadSec
    \/ ReplaceSec

AccessSpec == AccessInit /\ [][AccessNext]_vars

\* ------------------------------------------------------------------------
\* Readings of a container and of a header used to state the properties
\* ------------------------------------------------------------------------

\* the section count field
NSec(c) == getintH(c, number_of_pdb_records)

\* section i of a container in which it exists
Sec(c, i) == readsection(c, i).v

\* the payloads of the records of type t, for a header read_exth accepts
Payloads(h, t) == read_exth(h, t).v

\* every record of the walk of read_exth, as [t |-> type id, d |-> payload]
RECURSIVE WalkRecords(_, _, _)
WalkRecords(h, ebase, enum) ==
    IF enum = 0 THEN <<>>
    ELSE << [t |-> getint(h, ebase), d |-> Slice(h, ebase + 8, ebase + getint(h, ebase + 4))] >>
         \o WalkRecords(h, ebase + getint(h, ebase + 4), enum - 1)

AllRecords(h) ==
    LET p == get_exth_params(h).v IN WalkRecords(h, p.ebase + 12, p.enum)

\* a list of records without the first one of type t
RECURSIVE WithoutFirst(_, _)
WithoutFirst(recs, t) ==
    IF recs = <<>> THEN <<>>
    ELSE IF Head(recs).t = t THEN Tail(recs)
    ELSE << Head(recs) >> \o WithoutFirst(Tail(recs), t)

\* the declared length of the first record of type t, 0 when there is none
RECURSIVE FirstSize(_, _)
FirstSize(recs, t) ==
    IF recs = <<>> THEN 0
    ELSE IF Head(recs).t = t THEN 8 + Len(Head(recs).d)
    ELSE FirstSize(Tail(recs), t)

Managed == {501, 113, 504}

\* the value a patch gives the records of a managed type
NewValue(t) == IF t = 501 THEN EBOK ELSE asin

TagPresent(h) == get_exth_params(h).e = ""

\* the constructor has returned and the caller has not yet written the result:
\* file is the input of the run, getresult its output
Returned == pc = "Done"

\* the headers the run has patched
PatchedSections == IF combo THEN {0, datain_kf8} ELSE {0}

\* ------------------------------------------------------------------------
\* Properties of the patcher
\* ------------------------------------------------------------------------

\* C1: whenever the constructor has returned, the buffer getresult() gives is
\* exactly as long as the input container, combo or not.
C1_LengthPreserved == Returned => Len(getresult) = Len(file)

\* a combo run that changed both of its headers has returned
C1_Witness ==
    /\ Returned /\ combo /\ datain_kf8 = 2
    /\ Sec(getresult, 0) # Sec(file, 0)
    /\ Sec(getresult, 2) # Sec(file, 2)

\* C2: after a successful patch, read_exth on every patched header (section 0
\* and, in a combo run, the section the KF8 reference names) gives the
\* identifier for type 113 and for type 504 and 'EBOK' for type 501: it is the
\* first value of the list returned, and the only one when the input header
\* held at most one record of the type.
C2_PatchedRecords ==
    Returned =>
        \A s \in PatchedSections : \A t \in Managed :
            LET got == read_exth(Sec(getresult, s), t) IN
                /\ got.e = ""
                /\ got.v # <<>>
                /\ got.v[1] = NewValue(t)
                /\ (Len(Payloads(Sec(file, s), t)) <= 1 => got.v = << NewValue(t) >>)

\* a combo run has returned whose second header did not hold the identifier
\* under type 504 before
C2_Witness ==
    /\ Returned /\ combo /\ datain_kf8 = 2
    /\ Payloads(Sec(file, 2), 504) # << asin >>
    /\ Payloads(Sec(getresult, 2), 504) = << asin >>
    /\ Payloads(Sec(getresult, 0), 501) = << EBOK >>

\* the bytes of container c at the 0-based offsets of section i
SecRange(c, i) == LET a == getsecaddr(c, i).v IN a[1]..(a[2] - 1)

\* C3: a successful combo patch with KF8 reference k changes bytes inside
\* sections 0 and k only: the section count, the directory, every other section
\* and every section's start and end offset are those of the input.
C3_Frame ==
    (Returned /\ combo) =>
        /\ Len(getresult) = Len(file)
        /\ NSec(getresult) = NSec(file)
        /\ \A i \in 0..(NSec(file) - 1) :
              /\ getsecaddr(getresult, i) = getsecaddr(file, i)
              /\ (i \notin {0, datain_kf8} => Sec(getresult, i) = Sec(file, i))
        /\ \A j \in 0..(Len(file) - 1) :
              (j \notin SecRange(file, 0) \cup SecRange(file, datain_kf8))
                  => getresult[j + 1] = file[j + 1]

\* a combo run has returned that changed section 2 and left section 1 alone
C3_Witness ==
    /\ Returned /\ combo /\ datain_kf8 = 2
    /\ Sec(getresult, 2) # Sec(file, 2)
    /\ Sec(getresult, 1) = <<1, 2, 3, 4, 5>>

\* the primary header h calls for no second header: format version 8, or no
\* type-121 record, or the sentinel in the first type-121 record
NotComboInput(h) ==
    \/ getint(h, mobi_version) = 8
    \/ Payloads(h, 121) = <<>>
    \/ Payloads(h, 121)[1] = NoKF8

\* positions of __init__ after the primary header was written back, while the
\* stored file is still the input
AfterPrimary == {"PrimaryPatched", "NotCombo", "ComboDetected", "SecondaryPatched", "Done"}

C4_State ==
    (pc \in AfterPrimary /\ NotComboInput(Sec(file, 0))) =>
        /\ pc \in {"PrimaryPatched", "NotCombo", "Done"}
        /\ err = ""
        /\ pc # "PrimaryPatched" =>
              /\ combo = FALSE
              /\ \A t \in Managed : Payloads(Sec(datain, 0), t)[1] = NewValue(t)
              /\ \A i \in 1..(NSec(file) - 1) : Sec(datain, i) = Sec(file, i)

C4_Step ==
    (pc = "PrimaryPatched" /\ NotComboInput(Sec(file, 0))) => pc' = "NotCombo"

\* C4: when the original primary header has format version 8, or no type-121
\* record, or the sentinel in its first type-121 record, the run whose primary
\* patch succeeded goes on without error to combo = false and returns the
\* container with section 0 patched and every other section as in the input,
\* whatever those sections hold.
C4_NotCombo == []C4_State /\ [][C4_Step]_vars

\* a run on a legacy-version header holding the sentinel has returned, and
\* the container's section 2 has no EXTH tag
C4_Witness ==
    /\ Returned /\ ~combo
    /\ getint(Sec(file, 0), mobi_version) # 8
    /\ Payloads(Sec(file, 0), 121) = << NoKF8 >>
    /\ ~TagPresent(Sec(file, 2))

\* the primary header h of container c names a second header: format version
\* not 8 and a first type-121 record holding an index in range
ComboInput(c, h) ==
    /\ getint(h, mobi_version) # 8
    /\ Payloads(h, 121) # <<>>
    /\ Payloads(h, 121)[1] # NoKF8
    /\ getint(Payloads(h, 121)[1], 0) < NSec(c)

\* the record list the delete-then-add of the second header makes of recs
SecondaryPatchOf(recs) ==
    << [t |-> 501, d |-> EBOK], [t |-> 113, d |-> asin], [t |-> 504, d |-> asin] >>
    \o WithoutFirst(WithoutFirst(WithoutFirst(recs, 501), 113), 504)

\* C5: when the original primary header's version is not 8 and its first
\* type-121 record holds an in-range section index k, the decision is
\* ComboDetected with combo = true, and a run that returns has made of section
\* k's record list what the three deletions followed by the three additions
\* make of it.
C5_Combo ==
    (pc \in AfterPrimary \ {"PrimaryPatched"} /\ ComboInput(file, Sec(file, 0))) =>
        LET k == getint(Payloads(Sec(file, 0), 121)[1], 0) IN
            /\ pc # "NotCombo"
            /\ combo = TRUE
            /\ datain_kf8 = k
            /\ pc \in {"SecondaryPatched", "Done"} =>
                  AllRecords(Sec(datain, k)) = SecondaryPatchOf(AllRecords(Sec(file, k)))

\* a combo run has returned whose second header held a managed record to
\* delete and an unmanaged one to keep
C5_Witness ==
    /\ Returned /\ combo /\ datain_kf8 = 2
    /\ \E i, j \in 1..Len(AllRecords(Sec(file, 2))) :
          /\ AllRecords(Sec(file, 2))[i].t \in Managed
          /\ AllRecords(Sec(file, 2))[j].t \notin Managed

\* the sum of the declared lengths of the three records a patch adds
AddedSize == 2 * (8 + Len(asin)) + 12

\* the sum of the declared lengths of the records the three deletions remove
\* from the record list recs
RemovedSize(recs) == FirstSize(recs, 501) + FirstSize(recs, 113) + FirstSize(recs, 504)

\* header h passes the structural checks of a patch: the EXTH tag is there and
\* the bytes the patch trims from the tail, its net growth, are zero
PassesChecks(h) ==
    /\ TagPresent(h)
    /\ LET growth == AddedSize - RemovedSize(AllRecords(h)) IN
           growth > 0 => Last(h, growth) = Zeros(growth)

C6_State ==
    /\ pc = "Error" => err # ""
    /\ Returned =>
          /\ err = ""
          /\ PassesChecks(Sec(file, 0))
          /\ combo => /\ datain_kf8 \in 0..(NSec(file) - 1)
                      /\ PassesChecks(Sec(file, datain_kf8))

C6_Step ==
    /\ pc # "Error"
    /\ file' # file => (pc = "Done" /\ err = "" /\ file' = getresult)

\* C6: a structural check that fails anywhere in the patch leaves nothing to
\* obtain: the run ends in the raised exception and takes no further step,
\* a run that returns has passed every check on the headers it patched, and
\* the stored file changes only by a caller writing getresult() of a
\* constructor that returned -- also when the second header fails after
\* section 0 was written back into self.datain.
C6_NoPartialResult == []C6_State /\ [][C6_Step]_vars

\* the second header failed its check after section 0 was written back into
\* the buffer in memory
C6_Witness ==
    /\ pc = "Error" /\ err = TagError
    /\ datain # file
    /\ Len(datain) = Len(file)
    /\ Sec(datain, 0) # Sec(file, 0)
    /\ TagPresent(Sec(file, 0))

\* C7: patching the result of a patch again with the same identifier gives,
\* for each managed type and each patched header, the read_exth list the first
\* patch gave.  (In the second run file is the result of the first.)
C7_Idempotent ==
    (Returned /\ pass = 2) =>
        \A s \in PatchedSections : \A t \in Managed :
            read_exth(Sec(getresult, s), t) = read_exth(Sec(file, s), t)

\* the second run of a combo file has returned, on a header holding two
\* records of type 113
C7_Witness ==
    /\ Returned /\ pass = 2 /\ combo /\ datain_kf8 = 2
    /\ Len(Payloads(Sec(getresult, 2), 113)) = 2

\* C8: after a successful patch the Title Offset field of each patched header
\* is its original value plus the lengths of the three added records minus
\* the lengths of the records the three deletions removed.
C8_TitleOffset ==
    Returned =>
        \A s \in PatchedSections :
            getint(Sec(getresult, s), title_offset)
              = getint(Sec(file, s), title_offset) + AddedSize
                - RemovedSize(AllRecords(Sec(file, s)))

\* a combo run has returned whose second header lost a record and grew
C8_Witness ==
    /\ Returned /\ combo /\ datain_kf8 = 2
    /\ RemovedSize(AllRecords(Sec(file, 2))) > 0
    /\ getint(Sec(getresult, 2), title_offset) > getint(Sec(file, 2), title_offset)

\* C9 as stated: whatever the input header holds, the patched header holds
\* exactly one record of each managed type.
C9_ExactlyOne ==
    Returned =>
        \A s \in PatchedSections : \A t \in Managed :
            Len(Payloads(Sec(getresult, s), t)) = 1

\* q without its first element, <<>> for the empty list
Rest(q) == IF q = <<>> THEN <<>> ELSE Tail(q)

\* C9, amended: the three deletions remove the first record of each managed
\* type only, so the patched header holds, for each managed type, the new
\* record followed by the input's records of that type except the first:
\* exactly one record when the input held at most one, n records when it
\* held n >= 2.
C9_FirstOnly ==
    Returned =>
        \A s \in PatchedSections : \A t \in Managed :
            Payloads(Sec(getresult, s), t)
              = << NewValue(t) >> \o Rest(Payloads(Sec(file, s), t))

\* a run has returned on a primary header that held two records of type 113
C9_Witness ==
    /\ Returned
    /\ Len(Payloads(Sec(file, 0), 113)) = 2
    /\ Len(Payloads(Sec(getresult, 0), 113)) = 2

\* ------------------------------------------------------------------------
\* Properties of the container accessor
\* ------------------------------------------------------------------------

\* C10: getsecaddr fails, with the out-of-range error, for every section
\* number that is negative or at least the section count stored at offset 76,
\* and for no section number from 0 to count - 1.
C10_RangeCheck ==
    op = "getsecaddr" =>
        LET outside == arg < 0 \/ arg >= getintH(buf, number_of_pdb_records) IN
            /\ outside => res.e = RangeError
            /\ ~outside => res.e = ""

\* getsecaddr was asked for the section just past the last one
C10_Witness ==
    /\ op = "getsecaddr"
    /\ getintH(buf, number_of_pdb_records) > 1
    /\ arg = getintH(buf, number_of_pdb_records)
    /\ res.e = RangeError

\* ------------------------------------------------------------------------
\* The EXTH record operations applied on their own, one call after another
\* on the header the call before returned
\* ------------------------------------------------------------------------

\* how many calls a sequence of calls is made of
MaxCalls == 2

\* the records the headers are made of: two records of one type that differ
\* in payload and length, and a record of another type
CodecAlphabet ==
    { [t |-> 113, d |-> <<90>>], [t |-> 113, d |-> <<89, 88>>], [t |-> 100, d |-> <<97>>] }

CodecRecLists == SeqsUpTo(CodecAlphabet, MaxRecs)

\* the type ids and payloads the operations are called with
CodecTypes == {113, 100}
CodecPayloads == { <<66>>, <<66, 48>> }

\* the values of the header-length field: the EXTH block begins 16 bytes
\* further
HeaderLens == {title_offset + 4 - mobi_header_base, title_offset + 8 - mobi_header_base}

\* what is unusual about a header, if anything: the EXTH tag overwritten, the
\* header-length field pointing four bytes past the tag, zero padding that
\* takes a record of one payload byte but not of two, a record count one less
\* than the records present
CodecDefects == {"none", "notag", "wronglen", "short", "undercount"}

CodecShortPad == 8 + 1

\* a header section whose MOBI prefix is mobi_header_base + hlen bytes long
CodecHeader(hlen, recs, defect) ==
    LET body == EncodeRecs(recs)
        elen == 12 + Len(body)
        field == IF defect = "wronglen" THEN hlen + 4 ELSE hlen
        count == IF defect = "undercount" /\ recs # <<>> THEN Len(recs) - 1 ELSE Len(recs)
        prefix == [i \in 1..(mobi_header_base + hlen) |->
                     CASE i \in 17..20 -> <<77, 79, 66, 73>>[i - 16]
                       [] i \in 21..24 -> pack(field)[i - 20]
                       [] i \in 37..40 -> pack(8)[i - 36]
                       [] i \in 85..88 -> pack(mobi_header_base + hlen + elen)[i - 84]
                       [] OTHER -> 0]
    IN prefix \o (IF defect = "notag" THEN <<88, 88, 88, 88>> ELSE EXTH) \o pack(elen)
       \o pack(count) \o body \o <<84, 116>>
       \o Zeros(IF defect = "short" THEN CodecShortPad ELSE AmplePad)

CodecHeaders ==
    { CodecHeader(hlen, recs, defect) :
        hlen \in HeaderLens, recs \in CodecRecLists, defect \in CodecDefects }

CodecInit ==
    /\ buf \in CodecHeaders
    /\ op = ""
    /\ arg = 0
    /\ arg2 = <<>>
    /\ res = Ok(<<>>)
    /\ trail = <<>>
    /\ file = <<>> /\ asin = <<>> /\ pass = 1 /\ pc = "Idle"
    /\ datain = <<>> /\ datain_rec0 = <<>> /\ combo = FALSE
    /\ datain_kf8 = -1 /\ err = ""

\* get_exth_params(buf) is called
GetParams ==
    /\ op = ""
    /\ op' = "get_exth_params"
    /\ res' = get_exth_params(buf)
    /\ UNCHANGED << buf, arg, arg2, trail >>
    /\ UNCHANGED patchVars

\* read_exth(buf, exth_num) is called
ReadRec ==
    /\ op = ""
    /\ \E exth_num \in CodecTypes :
         /\ op' = "read_exth"
         /\ arg' = exth_num
         /\ res' = read_exth(buf, exth_num)
    /\ UNCHANGED << buf, arg2, trail >>
    /\ UNCHANGED patchVars

\* add_exth(buf, exth_num, exth_bytes) is called
AddRec ==
    /\ op = ""
    /\ \E exth_num \in CodecTypes, exth_bytes \in CodecPayloads :
         /\ op' = "add_exth"
         /\ arg' = exth_num
         /\ arg2' = exth_bytes
         /\ res' = add_exth(buf, exth_num, exth_bytes)
    /\ UNCHANGED << buf, trail >>
    /\ UNCHANGED patchVars

\* del_exth(buf, exth_num) is called
DelRec ==
    /\ op = ""
    /\ \E exth_num \in CodecTypes :
         /\ op' = "del_exth"
         /\ arg' = exth_num
         /\ res' = del_exth(buf, exth_num)
    /\ UNCHANGED << buf, arg2, trail >>
    /\ UNCHANGED patchVars

\* the two identifier records added in the order of the primary header
AddIdsPrimary(rec0, a) == ThenAdd(add_exth(rec0, 113, a), 504, a)

\* the second addition repeating the type of the first
AddIdsSecondary_twice504(rec0, a) == ThenAdd(add_exth(rec0, 504, a), 504, a)

\* the two identifier records added in the order of the secondary header
AddIdsSecondary(rec0, a) == ThenAdd(add_exth(rec0, 504, a), 113, a)

\* both orders are applied to buf; res.v holds what each returned or raised
AddBoth ==
    /\ op = ""
    /\ \E a \in CodecPayloads :
         /\ op' = "add_both"
         /\ arg2' = a
         /\ res' = Ok(<< AddIdsPrimary(buf, a), AddIdsSecondary(buf, a) >>)
    /\ UNCHANGED << buf, arg, trail >>
    /\ UNCHANGED patchVars

\* the header a call returned becomes the argument of the next call, as in
\* rec0 = add_exth(rec0, ...) and rec0 = del_exth(rec0, ...)
Rebind ==
    /\ op \in {"add_exth", "del_exth"}
    /\ res.e = ""
    /\ Len(trail) + 1 < MaxCalls
    /\ trail' = Append(trail, [op |-> op, arg |-> arg, arg2 |-> arg2, buf |-> buf])
    /\ buf' = res.v
    /\ op' = ""
    /\ arg' = 0
    /\ arg2' = <<>>
    /\ res' = Ok(<<>>)
    /\ UNCHANGED patchVars

CodecNext ==
    \/ GetParams
    \/ ReadRec
    \/ AddRec
    \/ DelRec
    \/ AddBoth
    \/ Rebind

CodecSpec == CodecInit /\ [][CodecNext]_vars

\* the directory start offset of section i: 32 bits, big-endian, at 78 + 8 * i
DirStart(c, i) == getint(c, first_pdb_record + 8 * i)

\* where section i ends: at the start of section i + 1 or, for the last
\* section, at the end of the container
DirEnd(c, i) == IF i = NSec(c) - 1 THEN Len(c) ELSE DirStart(c, i + 1)

InRange(c, i) == i >= 0 /\ i < NSec(c)

\* C11: readsection(container, i) returns the bytes from the directory start
\* offset of section i up to the start offset of section i + 1 or, for the
\* last section, up to the end of the container.
C11_ReadSection ==
    (op = "readsection" /\ InRange(buf, arg)) =>
        /\ res.e = ""
        /\ Len(res.v) = DirEnd(buf, arg) - DirStart(buf, arg)
        /\ \A j \in 1..Len(res.v) : res.v[j] = buf[DirStart(buf, arg) + j]

\* the last section of a container of several was read, and it is not empty
C11_Witness ==
    /\ op = "readsection"
    /\ NSec(buf) > 1
    /\ arg = NSec(buf) - 1
    /\ res.e = ""
    /\ Len(res.v) > 1

\* C12: replacesection(container, i, newBytes) fails when newBytes is not as
\* long as section i; otherwise it returns a container of the same total
\* length in which section i reads as newBytes and every byte outside the
\* range of section i is unchanged.
C12_ReplaceSection ==
    (op = "replacesection" /\ InRange(buf, arg)) =>
        IF Len(arg2) # DirEnd(buf, arg) - DirStart(buf, arg)
        THEN res = Fail(LengthError)
        ELSE /\ res.e = ""
             /\ Len(res.v) = Len(buf)
             /\ readsection(res.v, arg) = Ok(arg2)
             /\ \A j \in 0..(Len(buf) - 1) :
                   (j < DirStart(buf, arg) \/ j >= DirEnd(buf, arg))
                       => res.v[j + 1] = buf[j + 1]

\* a section in the middle of a container was replaced by other bytes
C12_Witness ==
    /\ op = "replacesection"
    /\ NSec(buf) = 3 /\ arg = 1
    /\ res.e = ""
    /\ arg2 = <<9, 8, 7, 6, 5>>
    /\ Sec(res.v, 2) = Sec(buf, 2)

\* where the EXTH block of a header begins: 16 + the 32-bit big-endian
\* header-length field at offset 20
ExthBase(h) == 16 + getint(h, 20)

\* the four bytes at the base are the EXTH tag
HasTag(h) == Slice(h, ExthBase(h), ExthBase(h) + 4) = EXTH

\* the declared EXTH length, the record count and the Title Offset of a header
ExthLen(h) == getint(h, ExthBase(h) + 4)
ExthCount(h) == getint(h, ExthBase(h) + 8)
TitleOffset(h) == getint(h, 84)

CodecCalls == {"add_exth", "read_exth", "del_exth"}

\* C13: get_exth_params computes base = 16 + the header-length field at
\* offset 20 and fails exactly when the four bytes at base are not 'EXTH';
\* add_exth, read_exth and del_exth therefore all fail on a header whose tag
\* was overwritten, and return no header.
C13_TagCheck ==
    /\ op = "get_exth_params" =>
          /\ res.e = TagError <=> ~HasTag(buf)
          /\ res.e = "" <=> HasTag(buf)
          /\ res.e = "" => res.v.ebase = ExthBase(buf)
    /\ (op \in CodecCalls /\ ~HasTag(buf)) => res = Fail(TagError)

\* del_exth was refused on a header that holds the tag four bytes before the
\* place the header-length field points to
C13_Witness ==
    /\ op = "del_exth"
    /\ ~HasTag(buf)
    /\ Slice(buf, ExthBase(buf) - 4, ExthBase(buf)) = EXTH
    /\ res = Fail(TagError)

\* the payloads of the records of type t in a list of records, in order
RECURSIVE SelectPayloads(_, _)
SelectPayloads(recs, t) ==
    IF recs = <<>> THEN <<>>
    ELSE (IF Head(recs).t = t THEN << Head(recs).d >> ELSE <<>>)
         \o SelectPayloads(Tail(recs), t)

HasType(h, t) == \E i \in 1..Len(AllRecords(h)) : AllRecords(h)[i].t = t

\* C14: read_exth walks exactly recordCount records from base + 12, advancing
\* by each record's declared length, and returns the payloads of the records
\* whose type is typeId, in walk order; other records contribute nothing.
C14_ReadExth ==
    (op = "read_exth" /\ HasTag(buf)) =>
        /\ Len(AllRecords(buf)) = ExthCount(buf)
        /\ res = Ok(SelectPayloads(AllRecords(buf), arg))

\* two payloads of one type were returned in walk order
C14_Witness ==
    /\ op = "read_exth"
    /\ res = Ok(<< <<89, 88>>, <<90>> >>)

\* C15: a successful add_exth returns a header of the same byte length, with
\* the record count increased by 1 and the declared EXTH length and the Title
\* Offset both increased by 8 + len(payload).
C15_AddFields ==
    (op = "add_exth" /\ res.e = "") =>
        /\ Len(res.v) = Len(buf)
        /\ ExthCount(res.v) = ExthCount(buf) + 1
        /\ ExthLen(res.v) = ExthLen(buf) + 8 + Len(arg2)
        /\ TitleOffset(res.v) = TitleOffset(buf) + 8 + Len(arg2)

\* a record with a payload of two bytes was added to a header holding records
C15_Witness ==
    /\ op = "add_exth"
    /\ res.e = ""
    /\ Len(arg2) = 2
    /\ ExthCount(buf) > 0

\* C16: add_exth fails, returning no header, whenever the 8 + len(payload)
\* bytes it would remove from the end of the section are not all zero, and
\* succeeds whenever they are all zero and the EXTH tag is present.
C16_PadCheck ==
    op = "add_exth" =>
        LET n == 8 + Len(arg2) IN
            /\ Last(buf, n) # Zeros(n) => (res.e # "" /\ res.v = <<>>)
            /\ (HasTag(buf) /\ Last(buf, n) # Zeros(n)) => res = Fail(PadError)
            /\ (HasTag(buf) /\ Last(buf, n) = Zeros(n)) => res.e = ""

\* a record one byte longer than the zero padding was refused
C16_Witness ==
    /\ op = "add_exth"
    /\ HasTag(buf)
    /\ Last(buf, 8 + Len(arg2) - 1) = Zeros(8 + Len(arg2) - 1)
    /\ res = Fail(PadError)

\* the record an add_exth call was asked to add
NewRecord == [t |-> arg, d |-> arg2]

\* C17, as stated: add_exth appends the new record after the existing record
\* list: in the resulting header the new record is the last record of the
\* walk, and all previously existing records keep their byte positions.
C17_Appended ==
    (op = "add_exth" /\ res.e = "") =>
        LET base == ExthBase(buf)
            after == AllRecords(res.v)
        IN /\ after[Len(after)] = NewRecord
           /\ after = AllRecords(buf) \o << NewRecord >>
           /\ Slice(res.v, base + 12, base + ExthLen(buf))
                 = Slice(buf, base + 12, base + ExthLen(buf))

\* C17, amended: add_exth inserts the new record in front of the existing
\* record list, right after the 12-byte EXTH prologue: in the resulting
\* header the new record is the first record of the walk, and the previously
\* existing records, the title and what follows come after it in their old
\* order, each 8 + len(payload) bytes further on; the padding tail is that
\* many bytes shorter.
C17_InsertedFirst ==
    (op = "add_exth" /\ res.e = "") =>
        LET base == ExthBase(buf)
            n == 8 + Len(arg2)
        IN /\ AllRecords(res.v) = << NewRecord >> \o AllRecords(buf)
           /\ Slice(res.v, base + 12, base + 12 + n) = pack(arg) \o pack(n) \o arg2
           /\ Slice(res.v, base + 12 + n, Len(res.v))
                 = Slice(buf, base + 12, Len(buf) - n)

\* a record was added to a header whose last record is a different one
C17_Witness ==
    /\ op = "add_exth"
    /\ res.e = ""
    /\ ExthCount(buf) > 0
    /\ AllRecords(buf)[ExthCount(buf)] # NewRecord
    /\ AllRecords(res.v)[1] = NewRecord

\* C18: del_exth on a header with at least one record of typeId removes only
\* the first such record in walk order: the count drops by 1, the declared
\* EXTH length and the Title Offset drop by that record's declared length,
\* that many zero bytes are appended at the tail, and later records of the
\* same type remain.
C18_DelFirst ==
    (op = "del_exth" /\ HasTag(buf) /\ HasType(buf, arg)) =>
        LET size == FirstSize(AllRecords(buf), arg) IN
            /\ res.e = ""
            /\ Len(res.v) = Len(buf)
            /\ AllRecords(res.v) = WithoutFirst(AllRecords(buf), arg)
            /\ ExthCount(res.v) = ExthCount(buf) - 1
            /\ ExthLen(res.v) = ExthLen(buf) - size
            /\ TitleOffset(res.v) = TitleOffset(buf) - size
            /\ Last(res.v, size) = Zeros(size)
            /\ Slice(res.v, ExthBase(buf) + ExthLen(buf) - size, Len(buf) - size)
                  = From(buf, ExthBase(buf) + ExthLen(buf))

\* the first of two records of one type was removed and the second remains
C18_Witness ==
    /\ op = "del_exth"
    /\ res.e = ""
    /\ SelectPayloads(AllRecords(buf), arg) = << <<90>>, <<89, 88>> >>
    /\ SelectPayloads(AllRecords(res.v), arg) = << <<89, 88>> >>

\* C19: del_exth on a header with a valid EXTH tag and no record of typeId
\* returns the header byte-identical, without error.
C19_DelNothing ==
    (op = "del_exth" /\ HasTag(buf) /\ ~HasType(buf, arg)) => res = Ok(buf)

\* del_exth walked past records of another type and found none of its own
C19_Witness ==
    /\ op = "del_exth"
    /\ HasTag(buf)
    /\ ExthCount(buf) > 0
    /\ ~HasType(buf, arg)
    /\ res = Ok(buf)

\* the call before the current one
LastCall == trail[Len(trail)]

\* C20: for every header h with no record of typeId on which add_exth
\* succeeds, del_exth(add_exth(h, typeId, payload), typeId) is byte-identical
\* to h.
C20_AddThenDel ==
    (/\ op = "del_exth"
     /\ trail # <<>>
     /\ LastCall.op = "add_exth"
     /\ LastCall.arg = arg
     /\ ~HasType(LastCall.buf, arg)) => res = Ok(LastCall.buf)

\* a record was added to a header holding records of another type only, and
\* deleted again
C20_Witness ==
    /\ op = "del_exth"
    /\ trail # <<>>
    /\ LastCall.op = "add_exth"
    /\ LastCall.arg = arg
    /\ ExthCount(LastCall.buf) > 0
    /\ ~HasType(LastCall.buf, arg)
    /\ buf # LastCall.buf
    /\ res = Ok(LastCall.buf)

\* the n records walked from pos on lie inside the section: each declared
\* length is at least 8 and no record passes the section's end
RECURSIVE WalkInside(_, _, _)
WalkInside(h, pos, n) ==
    \/ n = 0
    \/ /\ pos + 8 <= Len(h)
       /\ getint(h, pos + 4) >= 8
       /\ pos + getint(h, pos + 4) <= Len(h)
       /\ WalkInside(h, pos + getint(h, pos + 4), n - 1)

RecordsInside(h) == HasTag(h) /\ WalkInside(h, ExthBase(h) + 12, ExthCount(h))

\* C21: the size check of del_exth is unreachable: on every header whose
\* EXTH records lie entirely inside the section, del_exth never raises
\* 'incorrect section size change', because the length after removing a
\* record and padding again equals the original length.
C21_SizeCheckUnreachable ==
    (op = "del_exth" /\ RecordsInside(buf)) =>
        /\ res.e # SizeError
        /\ res.e = "" => Len(res.v) = Len(buf)

\* a record was removed from a header and the header padded again
C21_Witness ==
    /\ op = "del_exth"
    /\ RecordsInside(buf)
    /\ HasType(buf, arg)
    /\ res.e = ""
    /\ res.v # buf

\* the type ids read back to compare two headers
ObservedTypes == {100, 113, 121, 501, 504}

\* C22: the order in which the two identifier records are added has no
\* observable effect: when both orders succeed on a header, the two results
\* give the same read_exth result for every type id and the same record
\* count, declared EXTH length, Title Offset and section length.
C22_AddOrder ==
    (op = "add_both" /\ res.v[1].e = "" /\ res.v[2].e = "") =>
        LET h1 == res.v[1].v
            h2 == res.v[2].v
        IN /\ \A t \in ObservedTypes : read_exth(h1, t) = read_exth(h2, t)
           /\ ExthCount(h1) = ExthCount(h2)
           /\ ExthLen(h1) = ExthLen(h2)
           /\ TitleOffset(h1) = TitleOffset(h2)
           /\ Len(h1) = Len(h2)

\* both orders succeeded on a header that held a record of type 113 already,
\* and the two results differ in their bytes
C22_Witness ==
    /\ op = "add_both"
    /\ res.v[1].e = "" /\ res.v[2].e = ""
    /\ HasType(buf, 113)
    /\ res.v[1].v # res.v[2].v
    /\ read_exth(res.v[1].v, 113).v = << arg2 >> \o read_exth(buf, 113).v

\* the steps of the stated state machine, the steps into the error that
\* aborts a run, and the caller's steps between runs
MachineSteps ==
    { <<"Start", "Primary">>, <<"Primary", "PrimaryPatched">>,
      <<"PrimaryPatched", "NotCombo">>, <<"PrimaryPatched", "ComboDetected">>,
      <<"ComboDetected", "SecondaryPatched">>,
      <<"NotCombo", "Done">>, <<"SecondaryPatched", "Done">> }
ErrorSteps ==
    { <<"Start", "Error">>, <<"Primary", "Error">>,
      <<"PrimaryPatched", "Error">>, <<"ComboDetected", "Error">> }
CallerSteps == { <<"Done", "Written">>, <<"Written", "Start">> }

C23_State ==
    /\ pc \in {"Start", "Primary"} => combo = FALSE /\ datain_kf8 = -1
    /\ pc \in {"PrimaryPatched", "NotCombo", "ComboDetected"} =>
          /\ Ok(Sec(datain, 0)) = PatchPrimaryHeader(datain_rec0, asin)
          /\ \A i \in 1..(NSec(file) - 1) : Sec(datain, i) = Sec(file, i)
    /\ pc = "NotCombo" => combo = FALSE
    /\ pc \in {"ComboDetected", "SecondaryPatched"} => combo = TRUE

C23_Step ==
    /\ <<pc, pc'>> \in MachineSteps \cup ErrorSteps \cup CallerSteps
    /\ <<pc, pc'>> \in MachineSteps \cup ErrorSteps => pass' = pass

\* C23: every patch run follows the stated state machine: the primary header
\* is patched and written back before the combo decision is taken, the
\* secondary header is read and patched only after ComboDetected, every run
\* eventually ends in Done (reached only from NotCombo or after the secondary
\* write-back) or in an error that aborts the run, and no step is repeated or
\* retried.
C23_StateMachine ==
    /\ []C23_State
    /\ [][C23_Step]_vars
    /\ (pc = "Start") ~> (pc \in {"Done", "Error"})

\* the second run on a file has gone through ComboDetected and the secondary
\* write-back and has returned
C23_Witness ==
    /\ pc = "Done"
    /\ pass = 2
    /\ combo
    /\ datain_kf8 = 2

\* the primary header h of container c refers to a section the container does
\* not have: format version not 8 and a first type-121 record holding a
\* value other than 0xFFFFFFFF that is at least the section count
OutOfRangeInput(c, h) ==
    /\ getint(h, mobi_version) # 8
    /\ Payloads(h, 121) # <<>>
    /\ Payloads(h, 121)[1] # NoKF8
    /\ getint(Payloads(h, 121)[1], 0) >= NSec(c)

C24_State ==
    OutOfRangeInput(file, Sec(file, 0)) =>
        /\ pc \in {"Start", "Primary", "PrimaryPatched", "ComboDetected", "Error"}
        /\ pc = "ComboDetected" => combo = TRUE
        /\ (pc = "Error" /\ PassesChecks(Sec(file, 0))) =>
              /\ err = RangeError
              /\ combo = TRUE
              /\ Ok(Sec(datain, 0)) = PatchPrimaryHeader(Sec(file, 0), asin)
              /\ Sec(datain, 0) # Sec(file, 0)

C24_Step ==
    OutOfRangeInput(file, Sec(file, 0)) => file' = file

\* C24: when the version is not 8 and the KF8 reference is a value other than
\* 0xFFFFFFFF that is greater than or equal to the container's section count,
\* the patch fails with the out-of-range section error -- it is not treated
\* as NotCombo -- and yields no output, although section 0 had already been
\* patched in the buffer in memory.
C24_OutOfRange == []C24_State /\ [][C24_Step]_vars

\* the run has ended in the out-of-range error with section 0 patched in
\* self.datain
C24_Witness ==
    /\ OutOfRangeInput(file, Sec(file, 0))
    /\ pc = "Error"
    /\ err = RangeError
    /\ Sec(datain, 0) # Sec(file, 0)

\* positions of a run at which the combo decision has been taken
Decided == {"NotCombo", "ComboDetected", "SecondaryPatched", "Done"}

\* what header h decides: whether it names a second header, and which
\* section, -1 for none
NamesSecond(h) ==
    /\ getint(h, mobi_version) # 8
    /\ Payloads(h, 121) # <<>>
    /\ Payloads(h, 121)[1] # NoKF8
SecondOf(h) == IF NamesSecond(h) THEN getint(Payloads(h, 121)[1], 0) ELSE -1

\* C25: the combo decision is computed from the original, unpatched primary
\* header only: the version is read from the section-0 bytes as loaded, and
\* when several type-121 records exist only the first one in walk order
\* selects the secondary header; the decision is the same as it would be if
\* computed from the patched primary header.
C25_DecisionFromOriginal ==
    pc \in Decided =>
        LET original == Sec(file, 0)
            patched == PatchPrimaryHeader(original, asin).v
        IN /\ datain_rec0 = original
           /\ combo = NamesSecond(original)
           /\ datain_kf8 = SecondOf(original)
           /\ NamesSecond(patched) = NamesSecond(original)
           /\ SecondOf(patched) = SecondOf(original)
           /\ getint(patched, mobi_version) = getint(original, mobi_version)
           /\ Payloads(patched, 121) = Payloads(original, 121)

\* a run has returned that took its second header from the first of two
\* type-121 records
C25_Witness ==
    /\ Returned
    /\ Payloads(Sec(file, 0), 121) = << pack(2), pack(1) >>
    /\ combo
    /\ datain_kf8 = 2
    /\ Sec(getresult, 2) # Sec(file, 2)

\* C26: patching is idempotent at byte level: when a patch succeeded, patching
\* its result again with the same identifier succeeds -- it never raises the
\* trimmed-non-null-bytes error -- and returns a buffer byte-identical to the
\* first result, even when the input headers held several records of a
\* managed type.  (In the second run file is the result of the first.)
C26_ByteIdempotent ==
    pass = 2 =>
        /\ pc # "Error"
        /\ err = ""
        /\ Returned => getresult = file

\* the second run of a combo file has returned the bytes it was given, with
\* two records of type 113 in each patched header
C26_Witness ==
    /\ pass = 2
    /\ Returned
    /\ combo /\ datain_kf8 = 2
    /\ getresult = file
    /\ Len(Payloads(Sec(file, 0), 113)) = 2
    /\ Len(Payloads(Sec(file, 2), 113)) = 2

\* the records of a list whose type is none of the managed ones, in order
RECURSIVE Unmanaged(_)
Unmanaged(recs) ==
    IF recs = <<>> THEN <<>>
    ELSE (IF Head(recs).t \in Managed THEN <<>> ELSE << Head(recs) >>)
         \o Unmanaged(Tail(recs))

\* type ids that are none of the managed ones
OtherTypes == ObservedTypes \ Managed

\* C27: a successful patch preserves every EXTH record whose type is not 501,
\* 113 or 504: for each such type id, read_exth on the patched header returns
\* the same payloads in the same order as on the original header, for the
\* primary and for the secondary header.
C27_UnmanagedPreserved ==
    Returned =>
        \A s \in PatchedSections :
            /\ \A t \in OtherTypes :
                  read_exth(Sec(getresult, s), t) = read_exth(Sec(file, s), t)
            /\ Unmanaged(AllRecords(Sec(getresult, s))) = Unmanaged(AllRecords(Sec(file, s)))

\* the first run of a combo file has returned; both headers held a record of
\* type 100 behind a record of type 113 that the patch deleted
C27_Witness ==
    /\ Returned /\ pass = 1
    /\ combo /\ datain_kf8 = 2
    /\ \A s \in {0, 2} :
          /\ Payloads(Sec(file, s), 100) = << <<97>> >>
          /\ Payloads(Sec(file, s), 113) = << <<90>> >>
          /\ Payloads(Sec(getresult, s), 100) = << <<97>> >>
          /\ Payloads(Sec(getresult, s), 113) = << asin >>

\* the title of the generated headers
Title == <<84, 116>>
TitleLen == Len(Title)
TitleAt(h) == Slice(h, TitleOffset(h), TitleOffset(h) + TitleLen)

\* the EXTH block of header h starts after offset 84 and the title lies
\* behind the record list
TitleBehindExth(h) ==
    /\ HasTag(h)
    /\ ExthBase(h) > 84
    /\ TitleOffset(h) >= ExthBase(h) + ExthLen(h)
    /\ TitleOffset(h) + TitleLen <= Len(h)

\* C28: the Title Offset stays consistent with the data it points to: for a
\* header whose EXTH block starts after offset 84 and whose title lies after
\* the record list and before the trimmed zero tail, the bytes at the new
\* Title Offset after a successful add_exth or del_exth are the bytes that
\* were at the old Title Offset before it.
C28_TitleBytes ==
    (op \in {"add_exth", "del_exth"} /\ res.e = "" /\ TitleBehindExth(buf)) =>
        /\ TitleBehindExth(res.v)
        /\ TitleAt(res.v) = TitleAt(buf)

\* a deletion followed an addition and moved the title, which still reads Tt
C28_Witness ==
    /\ op = "del_exth"
    /\ trail # <<>>
    /\ LastCall.op = "add_exth"
    /\ res.e = ""
    /\ TitleOffset(res.v) < TitleOffset(buf)
    /\ TitleAt(res.v) = Title

\* the header a sequence of calls started from
Origin == IF trail = <<>> THEN buf ELSE trail[1].buf

\* how many records lie between pos and the declared end of the EXTH block
RECURSIVE PresentCount(_, _, _)
PresentCount(h, pos, end) ==
    IF pos + 8 > end \/ getint(h, pos + 4) < 8 THEN 0
    ELSE 1 + PresentCount(h, pos + getint(h, pos + 4), end)

RecordsPresent(h) == PresentCount(h, ExthBase(h) + 12, ExthBase(h) + ExthLen(h))

\* the sum of the declared lengths of the records of a list
RECURSIVE SizeSum(_)
SizeSum(recs) == IF recs = <<>> THEN 0 ELSE 8 + Len(Head(recs).d) + SizeSum(Tail(recs))

\* the declared EXTH length less the declared lengths of the counted records
Slack(h) == ExthLen(h) - SizeSum(AllRecords(h))

WellFormed(h) == HasTag(h) /\ ExthCount(h) = RecordsPresent(h)

Consistent(h) ==
    /\ Len(h) = Len(Origin)
    /\ ExthCount(h) = RecordsPresent(h)
    /\ Slack(h) = Slack(Origin)

\* C29: after any sequence of successful add_exth and del_exth calls starting
\* from a well-formed header, the EXTH geometry stays self-consistent: the
\* section length equals the original length, the record count field equals
\* the number of records present in the record list, and the declared EXTH
\* length minus the sum of the declared record lengths equals its initial
\* value.
C29_Geometry ==
    WellFormed(Origin) =>
        /\ Consistent(buf)
        /\ (op \in {"add_exth", "del_exth"} /\ res.e = "") => Consistent(res.v)

\* an addition and then a deletion of another record have changed a
\* well-formed header
C29_Witness ==
    /\ WellFormed(Origin)
    /\ trail # <<>>
    /\ trail[1].op = "add_exth"
    /\ op = "del_exth"
    /\ arg # trail[1].arg
    /\ res.e = ""
    /\ res.v # buf
    /\ ExthCount(res.v) = ExthCount(Origin)

====
